---- MODULE Spec2Model ----
(***************************************************************************)
(* A model of the RFB (VNC) server of rpi-barcode-scanner:                 *)
(*   src/remoteview.py          the acceptor loop                          *)
(*   src/vnc/vncserver.py       VNCClientThread.run                        *)
(*   src/vnc/pyvncs/server.py   VNCServer.init / server_init /             *)
(*                              handle_client / send_rectangles            *)
(*   src/vnc/util/rfb_bitmap.py RfbBitmap.get_bitmap                       *)
(* One step of the model is one blocking read of a session thread together *)
(* with everything the thread does until its next blocking read.           *)
(***************************************************************************)
EXTENDS Integers, Sequences, FiniteSets, TLC

VARIABLES
    caller,     \* the application that starts the server: "starting", "threads_started"
    registry,   \* encs.common.encodings_priority, fixed at start-up
    net,        \* the client's byte stream and the read the session is blocked in
    password,   \* VNCConfig.vnc_password
    acceptor,   \* the acceptor thread: "not_started", "unbound", "listening",
                \* "bind_raised", "accept_raised"
    backlog,    \* connections that will still arrive at the listener
    frame,      \* the frame the image source returns now
    msgs,       \* client messages handled so far by the message loops
    sess        \* per connection: the VNCServer object, its thread and its client

vars == <<caller, registry, net, password, acceptor, backlog, frame, msgs, sess>>

(***************************************************************************)
(* Bounds of the model.                                                    *)
(***************************************************************************)
\* time passes in ticks of TickMs milliseconds
TickMs == 25
\* client messages handled by all message loops together
MaxMsgs == 3
\* the connections, in the order the acceptor takes them
Sessions == {1, 2}
\* width and height of the frames of the image source
FrameSize == <<2, 1>>
FrameW == FrameSize[1]
FrameH == FrameSize[2]
\* colours of the frames of the image source, as (R, G, B)
Bg == <<0, 0, 0>>
Fg == <<200, 100, 50>>
Colours == {Bg, Fg}

(***************************************************************************)
(* Program constants.                                                      *)
(***************************************************************************)
\* server.py:268  time.time() - last_rfbu < 0.05
ThrottleMs == 50
\* server.py:314  sleep(0.05)
SleepMs == 50
\* server.py:39
RFB_SECTYPES_vncauth == 2
\* server.py:98   self.auth_type = 1  # None
SECTYPE_none == 1
\* Python's None for the configured password
PyNone == "<None>"
Passwords == {PyNone, "", "secret"}

Min(a, b) == IF a < b THEN a ELSE b
Max(a, b) == IF a > b THEN a ELSE b

(***************************************************************************)
(* Images (PIL.Image in mode RGB): a size and a colour for every position. *)
(***************************************************************************)
Pos(w, h) == (0 .. (w - 1)) \X (0 .. (h - 1))

NoImage == [w |-> 0, h |-> 0, px |-> [p \in Pos(0, 0) |-> Bg]]

Solid(w, h, c) == [w |-> w, h |-> h, px |-> [p \in Pos(w, h) |-> c]]

OnePixel(w, h, q) ==
    [w |-> w, h |-> h, px |-> [p \in Pos(w, h) |-> IF p = q THEN Fg ELSE Bg]]

\* the frames the image source can hold: a blank one, and one with the first
\* or the last pixel of the first row set
Frames ==
    {Solid(FrameW, FrameH, Bg),
     OnePixel(FrameW, FrameH, <<0, 0>>),
     OnePixel(FrameW, FrameH, <<FrameW - 1, 0>>)}

\* frames of one colour each, and one of another size: the image source is
\* free to return a frame of any size
White == <<255, 255, 255>>
SolidFrames ==
    {Solid(FrameW, FrameH, c) : c \in {Bg, Fg, White}} \cup {Solid(1, 1, Fg)}

\* Image.crop((x, y, x + w, y + h)): positions outside the image read as black
Crop(img, x, y, w, h) ==
    [w |-> w, h |-> h,
     px |-> [p \in Pos(w, h) |->
                IF x + p[1] < img.w /\ y + p[2] < img.h
                THEN img.px[<<x + p[1], y + p[2]>>]
                ELSE Bg]]

\* ImageChops.difference(a, b).getbbox(): the result has the smaller width and
\* the smaller height of the two images and compares them position by
\* position from their own origins; <<>> stands for None (no difference).
DiffBBox(a, b) ==
    LET w == Min(a.w, b.w)
        h == Min(a.h, b.h)
        D == {p \in Pos(w, h) : a.px[p] # b.px[p]}
        Least(S) == CHOOSE m \in S : \A n \in S : m <= n
        Most(S) == CHOOSE m \in S : \A n \in S : m >= n
    IN  IF D = {}
        THEN <<>>
        ELSE <<Least({p[1] : p \in D}), Least({p[2] : p \in D}),
               Most({p[1] : p \in D}) + 1, Most({p[2] : p \in D}) + 1>>

\* Image.crop(box) with box = (left, upper, right, lower)
CropBox(img, box) == Crop(img, box[1], box[2], box[3] - box[1], box[4] - box[2])

(***************************************************************************)
(* Pixel Format Adapter: RfbBitmap.get_bitmap, pixel by pixel.             *)
(* The arrays are numpy uint8 arrays, so every intermediate value of the   *)
(* 16- and 8-bpp branches is kept modulo 256; the host is little-endian.   *)
(***************************************************************************)
\* numpy "a << n" on uint8: the result stays uint8, and is 0 for n >= 8
Shl8(a, n) == IF n >= 8 THEN 0 ELSE (a * (2 ^ n)) % 256

\* "(a & mask) >> shift" as written,  a & redMask >> self.red_shift, binds as
\* a & (redMask >> shift); redMask is 255 << shift in Python's unbounded
\* integers, so redMask >> shift is 255 for every shift: the channel is kept
Mask32(a, shift) == LET mask == 2 ^ 8 - 1 IN a % (mask + 1)

\* bpp 32 (rfb_bitmap.py:38-64): mask, swap R and B for order "rgb", pad to RGBX
Pixel32(bm, c) ==
    LET a == <<Mask32(c[1], bm.red_shift), Mask32(c[2], bm.green_shift),
               Mask32(c[3], bm.blue_shift)>>
    IN  IF bm.primaryOrder = "rgb"
        THEN <<a[3], a[2], a[1], 255>>
        ELSE <<a[1], a[2], a[3], 255>>

\* bpp 16 (rfb_bitmap.py:66-73): (r << 11) | (g << 5) | b on uint8 operands;
\* the three terms occupy disjoint bits, so "|" is a sum
Word16(c) ==
    LET r == (c[1] \div 8) % 32
        g == (c[2] \div 4) % 64
        b == (c[3] \div 8) % 32
    IN  Shl8(r, 11) + Shl8(g, 5) + b

\* rfb_bitmap.py:74-76: byteswap().newbyteorder() stores the same value
\* big-endian; tobytes() of the untouched array is little-endian
Bytes16(word, bigendian) ==
    IF bigendian = 0
    THEN <<word \div 256, word % 256>>
    ELSE <<word % 256, word \div 256>>

\* rfb_bitmap.py:77-79: Image.frombytes("RGB", size, b, "raw", "BGR;16") reads
\* each two bytes as a little-endian 5/6/5 pixel and expands it to R, G, B
UnpackBGR16(b) ==
    LET pixel == b[1] + 256 * b[2]
    IN  <<(((pixel \div 2048) % 32) * 255) \div 31,
          (((pixel \div 32) % 64) * 255) \div 63,
          ((pixel % 32) * 255) \div 31>>

Pixel16(bm, c) == UnpackBGR16(Bytes16(Word16(c), bm.bigendian))

\* bpp 8 (rfb_bitmap.py:82-92): (b << 6) | (g << 3) | r, a palette index
Pixel8(c) ==
    LET r == (c[1] \div 64) % 4
        g == (c[2] \div 32) % 8
        b == (c[3] \div 64) % 4
    IN  <<Shl8(b, 6) + Shl8(g, 3) + r>>

NoBitmap == [ok |-> FALSE, mode |-> "", w |-> 0, h |-> 0, px |-> <<>>]

\* RfbBitmap.get_bitmap: None for an unsupported bpp
get_bitmap(bm, rectangle) ==
    IF bm.bpp = 32
    THEN [ok |-> TRUE, mode |-> "RGBX", w |-> rectangle.w, h |-> rectangle.h,
          px |-> [p \in Pos(rectangle.w, rectangle.h) |-> Pixel32(bm, rectangle.px[p])]]
    ELSE IF bm.bpp = 16
    THEN [ok |-> TRUE, mode |-> "RGB", w |-> rectangle.w, h |-> rectangle.h,
          px |-> [p \in Pos(rectangle.w, rectangle.h) |-> Pixel16(bm, rectangle.px[p])]]
    ELSE IF bm.bpp = 8
    THEN [ok |-> TRUE, mode |-> "P", w |-> rectangle.w, h |-> rectangle.h,
          px |-> [p \in Pos(rectangle.w, rectangle.h) |-> Pixel8(rectangle.px[p])]]
    ELSE NoBitmap

(***************************************************************************)
(* Encoder Registry (vnc/util/encodings, not part of the sources at hand): *)
(* the raw encoding, id 0, is always registered; other encodings plug in.  *)
(***************************************************************************)
ENCODINGS_raw == 0
\* a pluggable encoding a build may register ahead of raw
ENCODINGS_zlib == 6
\* the priority lists a build can have: raw only, or one more encoding first
Registries == {<<ENCODINGS_raw>>, <<ENCODINGS_zlib, ENCODINGS_raw>>}
encodings_priority == registry

(***************************************************************************)
(* VNC authentication (vnc/util/auth/vnc_auth.py, not part of the sources  *)
(* at hand): the response must be the encryption of the challenge under    *)
(* the configured password.  The cipher is an ideal one: the pair of key   *)
(* and challenge.                                                          *)
(***************************************************************************)
Challenges == {"ch1", "ch2"}
ClientKeys == {"secret", "guess"}
DesEncrypt(key, challenge) == <<key, challenge>>
Responses == {DesEncrypt(k, c) : k \in ClientKeys, c \in Challenges}
VNCAuth_auth(pw, challenge, response) == response = DesEncrypt(pw, challenge)

(***************************************************************************)
(* Messages the server sends.                                              *)
(***************************************************************************)
\* struct.pack of one number: "B", "!I" (network order), "I" (native order of
\* a little-endian host); the numbers packed are below 256
Pack_B(v) == <<v>>
Pack_BE_I(v) == <<0, 0, 0, v>>
Pack_native_I(v) == <<v, 0, 0, 0>>

NoMsg ==
    [kind |-> "", code |-> 0, types |-> <<>>, text |-> "", wire |-> <<>>,
     nrects |-> 0, x |-> 0, y |-> 0, w |-> 0, h |-> 0, enc |-> 0, first |-> FALSE,
     bpp |-> 0, order |-> "", shifts |-> <<>>, image |-> NoBitmap, src |-> NoImage]

ProtocolVersionMsg == [NoMsg EXCEPT !.kind = "ProtocolVersion", !.text = "RFB 003.008\n"]

SecurityTypesMsg(types) == [NoMsg EXCEPT !.kind = "SecurityTypes", !.types = types]

\* wire: the bytes sent ahead of the text
SecurityResultMsg(code, text, wire) ==
    [NoMsg EXCEPT !.kind = "SecurityResult", !.code = code, !.text = text,
                  !.wire = wire]

ChallengeMsg(ch) == [NoMsg EXCEPT !.kind = "Challenge", !.text = ch]

\* server_init (server.py:151-183): width, height, the default pixel format
\* (32 bpp, depth 24, little-endian, true colour, maxima 255, shifts 16/8/0),
\* the desktop name
DefaultFormat ==
    [bpp |-> 32, depth |-> 24, bigendian |-> 0, truecolor |-> 1,
     red_maximum |-> 255, green_maximum |-> 255, blue_maximum |-> 255,
     red_shift |-> 16, green_shift |-> 8, blue_shift |-> 0]

\* the order the handler of SetPixelFormat derives from the shifts (server.py:223)
OrderOf(red_shift, blue_shift) == IF red_shift > blue_shift THEN "rgb" ELSE "bgr"

ServerInitMsg(w, h) ==
    [NoMsg EXCEPT !.kind = "ServerInit", !.w = w, !.h = h, !.bpp = DefaultFormat.bpp,
                  !.shifts = <<DefaultFormat.red_shift, DefaultFormat.green_shift,
                               DefaultFormat.blue_shift>>,
                  !.order = OrderOf(DefaultFormat.red_shift, DefaultFormat.blue_shift)]

\* struct.pack("!BxH", 0, 0): a FramebufferUpdate with no rectangle
EmptyUpdateMsg == [NoMsg EXCEPT !.kind = "FramebufferUpdate"]

\* the raw encoder's send_image: a FramebufferUpdate with one rectangle, its
\* header x, y, w, h, encoding id, then the pixels of the bitmap as they are;
\* first: the encoder found its firstUpdateSent unset, so the rectangle is
\* the first one for it
send_image(x, y, w, h, image, bm, src) ==
    [NoMsg EXCEPT !.kind = "FramebufferUpdate", !.nrects = 1,
                  !.x = x, !.y = y, !.w = w, !.h = h, !.enc = ENCODINGS_raw,
                  !.bpp = bm.bpp, !.order = bm.primaryOrder,
                  !.shifts = <<bm.red_shift, bm.green_shift, bm.blue_shift>>,
                  !.image = image, !.src = src]

\* the state an encoder keeps from one rectangle to the next: after
\* send_image it has sent its first update
EncoderAfterSend(enc) == [enc EXCEPT !.firstUpdateSent = TRUE]

(***************************************************************************)
(* Time.  The code reads the clock only to compare the time since last_rfbu*)
(* with 50 ms, so a session keeps the age of last_rfbu in ticks, counted up *)
(* to AgeCap ticks (50 ms or more).                                        *)
(***************************************************************************)
CeilDiv(a, b) == (a + b - 1) \div b
AgeCap == CeilDiv(ThrottleMs, TickMs)
SleepTicks == CeilDiv(SleepMs, TickMs)
Older(age, ticks) == Min(age + ticks, AgeCap)

\* a variant with the comparison turned round
Throttled_reversed(age) == age * TickMs > ThrottleMs

\* server.py:268  time.time() - last_rfbu < 0.05
Throttled(age) == age * TickMs < ThrottleMs

(***************************************************************************)
(* The state of one connection.  Attributes the code has not assigned yet  *)
(* hold a placeholder (0, "", -1) and are never read before assignment,    *)
(* except the shifts, whose assignment shiftsSet records.                  *)
(***************************************************************************)
UnknownColour == <<-1, -1, -1>>

NoFormat ==
    [bpp |-> 0, depth |-> 0, bigendian |-> 0, truecolor |-> 0,
     red_maximum |-> 0, green_maximum |-> 0, blue_maximum |-> 0,
     red_shift |-> 0, green_shift |-> 0, blue_shift |-> 0]

NoEncoder == [id |-> 0, firstUpdateSent |-> FALSE]

\* bookkeeping for the properties: a SetPixelFormat waiting for its update
NoDue == [on |-> FALSE, fmt |-> NoFormat]

NewSession ==
    [pc |-> "NotAccepted",      \* the protocol state of the session
     thread |-> "none",         \* "none", "running", "returned", "raised"
     sockClosed |-> FALSE,      \* sock.close() was called
     peer |-> "up",             \* the client's end: "up", "eof", "reset"
     auth_type |-> 2,
     sectypes |-> <<>>,
     challenge |-> "",
     secResult |-> "none",      \* "none", "ok", "failed", "badtype"
     width |-> 0,
     height |-> 0,
     fmt |-> NoFormat,          \* bpp, depth, truecolor, shifts, rfb_bitmap.bigendian
     shiftsSet |-> FALSE,       \* self.red_shift, green_shift, blue_shift exist
     primaryOrder |-> "",
     encoding |-> -1,
     encoding_object |-> NoEncoder,
     encoders |-> 0,            \* encoder instances created so far
     framebuffer |-> NoImage,   \* NoImage stands for None
     age |-> 0,                 \* ticks since last_rfbu
     reqAge |-> AgeCap,         \* ticks since the last FramebufferUpdateRequest
     sentKinds |-> {},          \* kinds of the messages sent so far
     lastSent |-> NoMsg,        \* the last message sent
     clientFb |-> NoImage,      \* the client's copy of the framebuffer
     updates |-> 0,             \* FramebufferUpdate messages sent so far
     handled |-> 0,             \* client messages handled so far
     formatSeen |-> FALSE,      \* a SetPixelFormat was handled
     encSeen |-> FALSE,         \* a SetEncodings was handled
     lastType |-> -1,           \* type of the message the last step handled
     lastReq |-> <<>>,          \* its <<incremental, x, y, w, h>>, for type 3
     lastAge |-> 0,             \* age of last_rfbu when that message arrived
     closeReq |-> FALSE,        \* it came < 50 ms after the request before it
     frameRead |-> NoImage,     \* the frame the last update read
     incRead |-> FALSE,         \* the last message was an incremental request
                                \* whose update read the image source and replied
     repeated |-> FALSE,        \* ... and so was the message before it, and
                                \* both updates read the same frame
     rects |-> {},              \* rectangles requested so far
     due |-> NoDue,             \* a SetPixelFormat whose update is not sent yet
     answered |-> NoDue,        \* the SetPixelFormat the last update answers
     authMismatch |-> FALSE,    \* the client's response was not the encryption
     choseUnoffered |-> FALSE,  \* the client chose a type the config excludes
     lastEvent |-> ""]          \* what the last step of the session did

\* the client draws a rectangle it received into its copy
ApplyRect(fb, m) ==
    [fb EXCEPT !.px = [p \in Pos(fb.w, fb.h) |->
        IF /\ m.x <= p[1] /\ p[1] < m.x + m.w
           /\ m.y <= p[2] /\ p[2] < m.y + m.h
        THEN m.src.px[<<p[1] - m.x, p[2] - m.y>>]
        ELSE fb.px[p]]]

\* sock.send / sock.sendall of one message, and the client receiving it
Sent(r, m) ==
    [r EXCEPT !.sentKinds = @ \cup {m.kind}, !.lastSent = m,
              !.updates = IF m.kind = "FramebufferUpdate" THEN @ + 1 ELSE @,
              !.clientFb = IF m.kind = "FramebufferUpdate" /\ m.nrects = 1
                           THEN ApplyRect(@, m) ELSE @]

\* a send that raises ConnectionResetError or BrokenPipeError: the connection
\* is gone, and the reads that follow return b""
SendFailed(r) == [r EXCEPT !.peer = "eof"]

\* the thread ends: its VNCServer object goes away with it, and so does the
\* client's view of the connection
Forgotten(r) ==
    [r EXCEPT !.challenge = "", !.encoding = -1, !.encoding_object = NoEncoder,
              !.primaryOrder = "", !.framebuffer = NoImage, !.age = 0,
              !.reqAge = AgeCap, !.clientFb = NoImage,
              !.lastSent = IF @.kind = "SecurityResult" THEN @ ELSE NoMsg,
              !.frameRead = NoImage, !.incRead = FALSE, !.repeated = FALSE,
              !.rects = {}, !.due = NoDue, !.answered = NoDue]

\* an exception leaves run(): the thread ends, nothing closes the socket
Raised(r, ev) ==
    [Forgotten(r) EXCEPT !.pc = "CLOSED", !.thread = "raised", !.lastEvent = ev]

\* init() returns False (or handle_client returns): run() returns
Returned(r, ev) ==
    [Forgotten(r) EXCEPT !.pc = "CLOSED", !.thread = "returned", !.lastEvent = ev]

\* sock.close()
SockClose(r) == [r EXCEPT !.sockClosed = TRUE]

(***************************************************************************)
(* The acceptor (remoteview.py:10-33, guifw.py:753-781) and the start of   *)
(* a session thread                                                        *)
(* (vncserver.py:39-47, server.py:80-83).                                  *)
(***************************************************************************)
\* guifw.py:470-473: the application starts the acceptor thread and goes on
StartVnc ==
    /\ caller = "starting"
    /\ caller' = "threads_started"
    /\ acceptor' = "unbound"
    /\ UNCHANGED <<registry, net, password, backlog, frame, msgs, sess>>

\* guifw.py:759-761, remoteview.py:16-18: socket(), setsockopt(), bind(); an
\* OSError of bind leaves the thread's function, and nothing catches it
Bind(ok) ==
    /\ acceptor = "unbound"
    /\ acceptor' = IF ok THEN "listening" ELSE "bind_raised"
    /\ UNCHANGED <<caller, registry, net, password, backlog, frame, msgs, sess>>

\* a variant that runs the session in the acceptor (run() for start())
AcceptReady_joining ==
    /\ acceptor = "listening"
    /\ \A t \in Sessions : sess[t].thread # "running"

\* remoteview.py:21-23, 33: after newthread.start() the loop is back in accept
AcceptReady == acceptor = "listening"

\* remoteview.py:23: accept() raises an OSError (EMFILE, ECONNABORTED); the
\* loop has no handler, so the exception ends the acceptor thread
AcceptFails ==
    /\ AcceptReady
    /\ backlog > 0
    /\ acceptor' = "accept_raised"
    /\ UNCHANGED <<caller, registry, net, password, backlog, frame, msgs, sess>>

Accept(s) ==
    /\ AcceptReady
    /\ backlog > 0
    /\ sess[s].pc = "NotAccepted"
    /\ \A t \in Sessions : t < s => sess[t].pc # "NotAccepted"
    /\ backlog' = backlog - 1
    /\ sess' = [sess EXCEPT ![s] =
          [@ EXCEPT !.pc = "Started", !.thread = "running",
                    !.lastEvent = IF \E t \in Sessions : sess[t].thread = "running"
                                  THEN "accepted_beside" ELSE "accepted"]]
    /\ UNCHANGED <<caller, registry, net, password, acceptor, frame, msgs>>

\* run(): VNCServer(...), then init() sends the version and waits for the reply
RunStart(s) ==
    /\ sess[s].pc = "Started"
    /\ sess' = [sess EXCEPT ![s] =
                   [Sent(@, ProtocolVersionMsg) EXCEPT !.pc = "VersionExchange",
                                                       !.lastEvent = "version_sent"]]
    /\ UNCHANGED <<caller, registry, net, password, acceptor, backlog, frame, msgs>>

(***************************************************************************)
(* VNCServer.init (server.py:80-139).  A read of the handshake is          *)
(* get_buffer(30): it yields data, b"" at end of file ("eof"), None after  *)
(* 30 s ("timeout"), or raises a socket error ("error").                   *)
(***************************************************************************)
ReadKinds == {"data", "eof", "timeout", "error"}

ClientVersions == {"RFB 003.008\n", "RFB 003.003\n", "hello"}

\* float(data[4:11]) succeeds (server.py:89-93)
VersionParses(data) == data \in {"RFB 003.008\n", "RFB 003.003\n"}

\* a variant that tests the password against None only
OfferedSecTypes_noneOnly(pw) ==
    IF pw = PyNone THEN <<SECTYPE_none>> ELSE <<RFB_SECTYPES_vncauth>>

\* server.py:96-102
OfferedSecTypes(pw) ==
    IF pw = PyNone \/ pw = "" THEN <<SECTYPE_none>> ELSE <<RFB_SECTYPES_vncauth>>

AuthTypeFor(pw) == IF pw = PyNone \/ pw = "" THEN SECTYPE_none ELSE RFB_SECTYPES_vncauth

\* sectype in sectypes (server.py:111)
InSecTypes(sectype, sectypes) == \E i \in DOMAIN sectypes : sectypes[i] = sectype

RecvVersion(s, kind, data) ==
    /\ sess[s].pc = "VersionExchange"
    /\ kind = "data" \/ data = "hello"
    /\ sess' = [sess EXCEPT ![s] =
          IF kind = "error"
          THEN Raised(@, "version_error")
          ELSE IF kind # "data" \/ ~VersionParses(data)
          THEN Returned(@, "version_rejected")
          ELSE [Sent(@, SecurityTypesMsg(OfferedSecTypes(password)))
                   EXCEPT !.auth_type = AuthTypeFor(password),
                          !.sectypes = OfferedSecTypes(password),
                          !.pc = "SecurityNegotiation",
                          !.lastEvent = "sectypes_sent"]]
    /\ UNCHANGED <<caller, registry, net, password, acceptor, backlog, frame, msgs>>

ClientSecTypes == {1, 2, 16}

\* server.py:111-116: the chosen type was not offered
SecTypeRefused(r) ==
    Returned(SockClose(Sent([r EXCEPT !.secResult = "badtype"],
                            SecurityResultMsg(1, "Incompatible security type",
                                              Pack_B(1) \o Pack_native_I(26)))),
             "sectype_refused")

\* server.py:118-120: no authentication, the result is sent at once
NoAuthChosen(r) ==
    [Sent([r EXCEPT !.secResult = "ok"], SecurityResultMsg(0, "", Pack_BE_I(0)))
        EXCEPT !.pc = "ClientInit", !.lastEvent = "noauth_ok"]

\* server.py:121-124: VNCAuth.auth sends a random challenge and waits
AuthStarted(r, ch) ==
    [Sent([r EXCEPT !.challenge = ch], ChallengeMsg(ch))
        EXCEPT !.pc = "SecurityHandshake", !.lastEvent = "challenge_sent"]

\* server.py:108-134, from the read of the chosen type to the next read
AfterSecType(r, kind, sectype, ch) ==
    IF kind = "error"
    THEN Raised(r, "sectype_error")
    ELSE IF kind # "data"
    THEN Raised(r, "sectype_unpack_error")   \* struct.unpack("B", None or b"")
    ELSE IF ~InSecTypes(sectype, r.sectypes)
    THEN SecTypeRefused(r)
    ELSE IF sectype = SECTYPE_none
    THEN NoAuthChosen(r)
    ELSE IF sectype = RFB_SECTYPES_vncauth
    THEN AuthStarted(r, ch)
    ELSE Returned(SockClose(r), "unsupported_auth")

RecvSecType(s, kind, sectype, ch) ==
    /\ sess[s].pc = "SecurityNegotiation"
    /\ kind = "data" \/ sectype = 1
    /\ (kind = "data" /\ sectype = RFB_SECTYPES_vncauth) \/ ch = "ch1"
    /\ sess' = [sess EXCEPT ![s] =
          [AfterSecType(@, kind, sectype, ch)
              EXCEPT !.choseUnoffered =
                  /\ kind = "data"
                  /\ sectype # (IF password \in {PyNone, ""} THEN 1 ELSE 2)]]
    /\ UNCHANGED <<caller, registry, net, password, acceptor, backlog, frame, msgs>>

\* VNCAuth.auth succeeded: it has sent the result 0; init() goes on
AuthPassed(r) ==
    [Sent([r EXCEPT !.secResult = "ok", !.challenge = ""],
          SecurityResultMsg(0, "", Pack_BE_I(0)))
        EXCEPT !.pc = "ClientInit", !.lastEvent = "auth_ok"]

\* VNCAuth.auth failed: server.py:125-130 sends "Auth failed.", closes, returns
AuthRejected(r) ==
    Returned(SockClose(Sent([r EXCEPT !.secResult = "failed", !.challenge = ""],
                            SecurityResultMsg(1, "Auth failed.", Pack_native_I(12)))),
             "auth_failed")

\* a variant that does not look at the result of auth.auth
AfterAuth_ignoringResult(r, authOk) == AuthPassed(r)

\* server.py:124-130  if not auth.auth(sock, self.password): ... return False
AfterAuth(r, authOk) == IF authOk THEN AuthPassed(r) ELSE AuthRejected(r)

RecvAuthResponse(s, kind, response) ==
    /\ sess[s].pc = "SecurityHandshake"
    /\ kind = "data" \/ response = DesEncrypt("guess", "ch1")
    /\ sess' = [sess EXCEPT ![s] =
          IF kind = "error"
          THEN Raised(@, "auth_error")
          ELSE [AfterAuth(@, kind = "data"
                             /\ VNCAuth_auth(password, @.challenge, response))
                   EXCEPT !.authMismatch =
                       kind = "data" /\ response # <<password, sess[s].challenge>>]]
    /\ UNCHANGED <<caller, registry, net, password, acceptor, backlog, frame, msgs>>

(***************************************************************************)
(* ClientInit, server_init (server.py:136-183) and the start of            *)
(* handle_client (server.py:185-191).  Whatever the read of the shared     *)
(* flag yields, init() goes on to server_init.                             *)
(***************************************************************************)
server_init(r, screen) ==
    Sent([r EXCEPT !.width = screen.w, !.height = screen.h,
                   !.fmt = [NoFormat EXCEPT !.bpp = DefaultFormat.bpp,
                                            !.depth = DefaultFormat.depth,
                                            !.truecolor = DefaultFormat.truecolor],
                   !.clientFb = Solid(screen.w, screen.h, UnknownColour)],
         ServerInitMsg(screen.w, screen.h))

handle_client_start(r) ==
    [r EXCEPT !.pc = "MessageLoop", !.age = 0, !.primaryOrder = "bgr",
              !.encoding = ENCODINGS_raw,
              !.encoding_object = [id |-> r.encoders + 1, firstUpdateSent |-> FALSE],
              !.encoders = r.encoders + 1,
              !.lastEvent = "loop_started"]

RecvClientInit(s, kind) ==
    /\ sess[s].pc = "ClientInit"
    /\ sess' = [sess EXCEPT ![s] =
          IF kind = "error"
          THEN Raised(@, "clientinit_error")
          ELSE \* the result of the read is logged and not looked at
               [handle_client_start(
                    server_init([@ EXCEPT !.peer = IF kind = "eof" THEN "eof" ELSE "up"],
                                frame))
                   EXCEPT !.lastEvent = IF kind = "timeout" THEN "clientinit_timeout"
                                        ELSE IF kind = "eof" THEN "clientinit_eof"
                                        ELSE @]]
    /\ UNCHANGED <<caller, registry, net, password, acceptor, backlog, frame, msgs>>

(***************************************************************************)
(* The attributes of a session are attributes of its own VNCServer object  *)
(* (server.py:43-60, and every "self.x = ..." of the handlers): a step of  *)
(* session s writes the record of s.  Time that passes inside the step     *)
(* (sleep) passes for every session.                                       *)
(***************************************************************************)
\* a variant in which the pixel format is an attribute of the class
StepOf_sharedFormat(s, r2, ticks) ==
    [t \in Sessions |->
        LET q == IF t = s
                 THEN r2
                 ELSE [sess[t] EXCEPT !.fmt = r2.fmt, !.shiftsSet = r2.shiftsSet,
                                      !.primaryOrder = r2.primaryOrder]
        IN  [q EXCEPT !.age = Older(@, ticks), !.reqAge = Older(@, ticks)]]

\* a variant that takes the size from the image source at every step
StepOf_resizing(s, r2, ticks) ==
    [t \in Sessions |->
        LET q == IF t = s
                 THEN [r2 EXCEPT !.width = frame.w, !.height = frame.h]
                 ELSE sess[t]
        IN  [q EXCEPT !.age = Older(@, ticks), !.reqAge = Older(@, ticks)]]

StepOf(s, r2, ticks) ==
    [t \in Sessions |->
        LET q == IF t = s THEN r2 ELSE sess[t]
        IN  [q EXCEPT !.age = Older(@, ticks), !.reqAge = Older(@, ticks)]]

(***************************************************************************)
(* VNCServer.send_rectangles (server.py:300-343) with get_rectangle        *)
(* (server.py:291-298); scr is what the image source returns.              *)
(***************************************************************************)
get_rectangle(scr, x, y, w, h) == Crop(scr, x, y, w, h)

\* the configuration send_rectangles copies into rfb_bitmap (server.py:327-335)
BitmapOf(r) ==
    [bpp |-> r.fmt.bpp, depth |-> r.fmt.depth, primaryOrder |-> r.primaryOrder,
     truecolor |-> r.fmt.truecolor, red_shift |-> r.fmt.red_shift,
     green_shift |-> r.fmt.green_shift, blue_shift |-> r.fmt.blue_shift,
     bigendian |-> r.fmt.bigendian]

\* server.py:309-311: the update finds no difference and sleeps 50 ms
UpdateSleeps(r, scr, x, y, w, h, incremental) ==
    /\ r.framebuffer # NoImage
    /\ incremental = 1
    /\ DiffBBox(get_rectangle(scr, x, y, w, h), r.framebuffer) = <<>>

\* a variant that takes the snapshot from another frame than the one it sends:
\* the frame an earlier read of the image source returned
send_rectangles_rereading(r, scr, x, y, w, h, incremental, sendOk) ==
    LET rectangle == get_rectangle(scr, x, y, w, h)
        lastshot == get_rectangle(r.frameRead, x, y, w, h)
        r0 == [r EXCEPT !.encoding_object.firstUpdateSent = FALSE,
                        !.frameRead = scr]
        diffing == r.framebuffer # NoImage /\ incremental = 1
        bbox == DiffBBox(rectangle, r.framebuffer)
    IN  IF diffing /\ bbox = <<>>
        THEN IF sendOk
             THEN [Sent(r0, EmptyUpdateMsg) EXCEPT !.lastEvent = "update_empty"]
             ELSE [SendFailed(r0) EXCEPT !.lastEvent = "send_failed"]
        ELSE LET rect2 == IF diffing THEN CropBox(rectangle, bbox) ELSE rectangle
                 x2 == IF diffing THEN bbox[1] ELSE x
                 y2 == IF diffing THEN bbox[2] ELSE y
             IN  IF ~r.shiftsSet
                 THEN \* self.red_shift does not exist: AttributeError
                      Raised(r0, "update_raised")
                 ELSE LET image == get_bitmap(BitmapOf(r0), rect2)
                      IN  IF ~image.ok
                          THEN \* the encoder is handed None and raises
                               Raised(r0, "encode_raised")
                          ELSE LET \* the encoder notes that it has sent an image
                                   r1 == [r0 EXCEPT !.framebuffer = lastshot,
                                                    !.encoding_object =
                                                        EncoderAfterSend(@)]
                                   \* the selected encoder writes its own id
                               m == [send_image(x2, y2, rect2.w, rect2.h, image,
                                                BitmapOf(r0), rect2)
                                        EXCEPT !.enc = r0.encoding,
                                               !.first =
                                                   ~r0.encoding_object.firstUpdateSent]
                               IN  IF sendOk
                                   THEN [Sent(r1, m) EXCEPT !.lastEvent = "update_sent"]
                                   ELSE [SendFailed(r1) EXCEPT !.lastEvent = "send_failed"]

send_rectangles(r, scr, x, y, w, h, incremental, sendOk) ==
    LET rectangle == get_rectangle(scr, x, y, w, h)
        lastshot == rectangle
        r0 == [r EXCEPT !.encoding_object.firstUpdateSent = FALSE,
                        !.frameRead = scr]
        diffing == r.framebuffer # NoImage /\ incremental = 1
        bbox == DiffBBox(rectangle, r.framebuffer)
    IN  IF diffing /\ bbox = <<>>
        THEN IF sendOk
             THEN [Sent(r0, EmptyUpdateMsg) EXCEPT !.lastEvent = "update_empty"]
             ELSE [SendFailed(r0) EXCEPT !.lastEvent = "send_failed"]
        ELSE LET rect2 == IF diffing THEN CropBox(rectangle, bbox) ELSE rectangle
                 x2 == IF diffing THEN bbox[1] ELSE x
                 y2 == IF diffing THEN bbox[2] ELSE y
             IN  IF ~r.shiftsSet
                 THEN \* self.red_shift does not exist: AttributeError
                      Raised(r0, "update_raised")
                 ELSE LET image == get_bitmap(BitmapOf(r0), rect2)
                      IN  IF ~image.ok
                          THEN \* the encoder is handed None and raises
                               Raised(r0, "encode_raised")
                          ELSE LET \* the encoder notes that it has sent an image
                                   r1 == [r0 EXCEPT !.framebuffer = lastshot,
                                                    !.encoding_object =
                                                        EncoderAfterSend(@)]
                                   \* the selected encoder writes its own id
                               m == [send_image(x2, y2, rect2.w, rect2.h, image,
                                                BitmapOf(r0), rect2)
                                        EXCEPT !.enc = r0.encoding,
                                               !.first =
                                                   ~r0.encoding_object.firstUpdateSent]
                               IN  IF sendOk
                                   THEN [Sent(r1, m) EXCEPT !.lastEvent = "update_sent"]
                                   ELSE [SendFailed(r1) EXCEPT !.lastEvent = "send_failed"]

(***************************************************************************)
(* VNCServer.handle_client (server.py:193-285), one client message a step. *)
(***************************************************************************)
\* pixel formats a client sets
ClientFormats ==
    {DefaultFormat,
     [DefaultFormat EXCEPT !.red_shift = 0, !.blue_shift = 16],
     [bpp |-> 16, depth |-> 16, bigendian |-> 0, truecolor |-> 1,
      red_maximum |-> 31, green_maximum |-> 63, blue_maximum |-> 31,
      red_shift |-> 11, green_shift |-> 5, blue_shift |-> 0],
     [bpp |-> 8, depth |-> 8, bigendian |-> 0, truecolor |-> 1,
      red_maximum |-> 7, green_maximum |-> 7, blue_maximum |-> 3,
      red_shift |-> 5, green_shift |-> 2, blue_shift |-> 0],
     [DefaultFormat EXCEPT !.bpp = 24]}

\* the pixel formats of the three depths a client may set: for 32 bpp the
\* channels in any three of the four bytes, for 16 bpp 5/6/5 bits with red or
\* blue on top, for 8 bpp 3/3/2 bits either way round; either byte order
Format32(e, shifts) ==
    [DefaultFormat EXCEPT !.bigendian = e, !.red_shift = shifts[1],
                          !.green_shift = shifts[2], !.blue_shift = shifts[3]]
Format16(e, shifts) ==
    [bpp |-> 16, depth |-> 16, bigendian |-> e, truecolor |-> 1,
     red_maximum |-> 31, green_maximum |-> 63, blue_maximum |-> 31,
     red_shift |-> shifts[1], green_shift |-> shifts[2], blue_shift |-> shifts[3]]
Format8(shifts, maxima) ==
    [bpp |-> 8, depth |-> 8, bigendian |-> 0, truecolor |-> 1,
     red_maximum |-> maxima[1], green_maximum |-> maxima[2],
     blue_maximum |-> maxima[3],
     red_shift |-> shifts[1], green_shift |-> shifts[2], blue_shift |-> shifts[3]]
ValidFormats ==
    {Format32(e, sh) : e \in {0, 1}, sh \in {<<16, 8, 0>>, <<0, 8, 16>>, <<24, 16, 8>>}}
    \cup {Format16(e, sh) : e \in {0, 1}, sh \in {<<11, 5, 0>>, <<0, 5, 11>>}}
    \cup {Format8(<<0, 3, 6>>, <<7, 7, 3>>), Format8(<<5, 2, 0>>, <<7, 7, 3>>)}

\* rectangles a client requests: the whole frame, its first and its last
\* pixel of the first row
ClientRects ==
    {<<0, 0, FrameW, FrameH>>, <<0, 0, 1, 1>>, <<FrameW - 1, 0, 1, 1>>}

\* the same, and a rectangle that starts in the frame and ends beyond it: the
\* four fields are any unsigned 16-bit numbers the client writes
RequestRects == ClientRects \cup {<<FrameW - 1, 0, 2, 1>>}

\* encoding lists a client declares; 5 is an encoding no build registers
ClientEncodingLists == {<<5, 0>>, <<5>>, <<0, 6>>, <<6>>}

\* a variant that stores the format and leaves the redraw to the next request
SetPixelFormatHandler_noRedraw(r, scr, pf, sendOk) ==
    [r EXCEPT !.fmt = pf, !.shiftsSet = TRUE,
              !.primaryOrder = IF pf.bpp = 8 THEN "bgr"
                               ELSE OrderOf(pf.red_shift, pf.blue_shift),
              !.lastEvent = "format_set"]

\* a variant that keeps the order derived from the shifts for every depth
SetPixelFormatHandler_shiftOrder(r, scr, pf, sendOk) ==
    send_rectangles(
        [r EXCEPT !.fmt = pf, !.shiftsSet = TRUE,
                  !.primaryOrder = OrderOf(pf.red_shift, pf.blue_shift),
                  !.framebuffer = NoImage],
        scr, 0, 0, r.width, r.height, 0, sendOk)

\* a variant that makes a new encoder for the new format
SetPixelFormatHandler_freshEncoder(r, scr, pf, sendOk) ==
    send_rectangles(
        [r EXCEPT !.fmt = pf, !.shiftsSet = TRUE,
                  !.primaryOrder = IF pf.bpp = 8 THEN "bgr"
                                   ELSE OrderOf(pf.red_shift, pf.blue_shift),
                  !.framebuffer = NoImage,
                  !.encoding_object = [id |-> r.encoders + 1, firstUpdateSent |-> FALSE],
                  !.encoders = @ + 1],
        scr, 0, 0, r.width, r.height, 0, sendOk)

\* server.py:207-247
SetPixelFormatHandler(r, scr, pf, sendOk) ==
    send_rectangles(
        [r EXCEPT !.fmt = pf, !.shiftsSet = TRUE,
                  !.primaryOrder = IF pf.bpp = 8 THEN "bgr"
                                   ELSE OrderOf(pf.red_shift, pf.blue_shift),
                  !.framebuffer = NoImage],
        scr, 0, 0, r.width, r.height, 0, sendOk)

\* a variant that walks the client's list and takes its first registered id
SetEncodingsHandler_clientOrder(r, ids) ==
    LET hits == {j \in DOMAIN ids :
                    \E i \in DOMAIN encodings_priority : ids[j] = encodings_priority[i]}
    IN  IF hits = {}
        THEN [r EXCEPT !.lastEvent = "encodings_kept"]
        ELSE LET e == ids[CHOOSE j \in hits : \A k \in hits : j <= k]
             IN  IF r.encoding # e
                 THEN [r EXCEPT !.encoding = e,
                                !.encoding_object =
                                    [id |-> r.encoders + 1, firstUpdateSent |-> FALSE],
                                !.encoders = @ + 1,
                                !.lastEvent = "encoding_switched"]
                 ELSE [r EXCEPT !.lastEvent = "encodings_kept"]

\* server.py:248-262
SetEncodingsHandler(r, ids) ==
    LET hits == {i \in DOMAIN encodings_priority :
                    \E j \in DOMAIN ids : ids[j] = encodings_priority[i]}
    IN  IF hits = {}
        THEN [r EXCEPT !.lastEvent = "encodings_kept"]
        ELSE LET e == encodings_priority[CHOOSE i \in hits : \A k \in hits : i <= k]
             IN  IF r.encoding # e
                 THEN [r EXCEPT !.encoding = e,
                                !.encoding_object =
                                    [id |-> r.encoders + 1, firstUpdateSent |-> FALSE],
                                !.encoders = @ + 1,
                                !.lastEvent = "encoding_switched"]
                 ELSE [r EXCEPT !.lastEvent = "encodings_kept"]

\* server.py:263-277
UpdateRequestHandler(r, scr, incremental, x, y, w, h, sendOk) ==
    IF Throttled(r.age)
    THEN IF sendOk
         THEN [Sent(r, EmptyUpdateMsg) EXCEPT !.lastEvent = "request_throttled"]
         ELSE Returned(SendFailed(r), "throttle_send_failed")   \* break
    ELSE send_rectangles([r EXCEPT !.age = 0], scr, x, y, w, h, incremental, sendOk)

\* bookkeeping for the properties for a step that handled a message of type type
Noted(r, r2, type, req) ==
    LET sentNow == r2.updates # r.updates
        dueBefore == IF type = 0 THEN [on |-> TRUE, fmt |-> r2.fmt] ELSE r.due
        readNow == /\ sentNow /\ type = 3 /\ r2.lastEvent # "request_throttled"
                   /\ req[1] = 1
    IN  [r2 EXCEPT !.handled = @ + 1,
                   !.lastType = type,
                   !.lastReq = req,
                   !.lastAge = r.age,
                   !.closeReq = type = 3 /\ r.reqAge * TickMs < ThrottleMs,
                   !.reqAge = IF type = 3 THEN 0 ELSE @,
                   !.formatSeen = @ \/ type = 0,
                   !.encSeen = @ \/ type = 2,
                   !.rects = IF type = 3 THEN @ \cup {SubSeq(req, 2, 5)} ELSE @,
                   !.incRead = readNow,
                   !.repeated = readNow /\ r.incRead /\ r.frameRead = r2.frameRead,
                   !.answered = IF sentNow THEN dueBefore ELSE @,
                   !.due = IF sentNow THEN NoDue ELSE dueBefore]

CanHandle(s) ==
    /\ sess[s].pc = "MessageLoop"
    /\ sess[s].peer = "up"
    /\ msgs < MaxMsgs

SetPixelFormat(s, pf, sendOk) ==
    /\ CanHandle(s)
    /\ sess' = StepOf(s, Noted(sess[s],
                               SetPixelFormatHandler(sess[s], frame, pf, sendOk),
                               0, <<>>), 0)
    /\ msgs' = msgs + 1
    /\ UNCHANGED <<caller, registry, net, password, acceptor, backlog, frame>>

SetEncodings(s, ids) ==
    /\ CanHandle(s)
    /\ sess' = StepOf(s, Noted(sess[s], SetEncodingsHandler(sess[s], ids), 2, ids), 0)
    /\ msgs' = msgs + 1
    /\ UNCHANGED <<caller, registry, net, password, acceptor, backlog, frame>>

FramebufferUpdateRequest(s, incremental, rect, sendOk) ==
    /\ CanHandle(s)
    /\ LET r == sess[s]
           sleeps == /\ ~Throttled(r.age)
                     /\ UpdateSleeps(r, frame, rect[1], rect[2], rect[3], rect[4],
                                     incremental)
       IN  sess' = StepOf(s,
                          Noted(r,
                                UpdateRequestHandler(r, frame, incremental, rect[1],
                                                     rect[2], rect[3], rect[4], sendOk),
                                3, <<incremental>> \o rect),
                          IF sleeps THEN SleepTicks ELSE 0)
    /\ msgs' = msgs + 1
    /\ UNCHANGED <<caller, registry, net, password, acceptor, backlog, frame>>

\* a variant that takes an input event for a request and stamps last_rfbu
IgnoredEventHandler_stamping(r) == [r EXCEPT !.age = 0, !.lastEvent = "ignored"]

\* server.py:278-285: the payload of a KeyEvent, PointerEvent or ClientCutText
\* is read and dropped
IgnoredEventHandler(r) == [r EXCEPT !.lastEvent = "ignored"]

IgnoredEvent(s, type) ==
    /\ CanHandle(s)
    /\ sess' = StepOf(s, Noted(sess[s], IgnoredEventHandler(sess[s]), type, <<>>), 0)
    /\ msgs' = msgs + 1
    /\ UNCHANGED <<caller, registry, net, password, acceptor, backlog, frame>>

\* The client goes away between a type byte and its payload, so that the
\* read of the payload, recv(n, MSG_WAITALL), returns b"" (how = "eof") or
\* raises ConnectionResetError (how = "reset"), which nothing catches.
\*   type 0, 2: struct.unpack of b"" raises          (server.py:208-221, 249-251)
\*   type 3:    "if not data2: break"                (server.py:264-267)
\*   type 4-6:  the result is not looked at          (server.py:278-285)
PayloadCutHandler(r, type, how) ==
    IF how = "reset"
    THEN Raised([r EXCEPT !.peer = "eof"], "payload_error")
    ELSE IF type \in {0, 2}
    THEN Raised([r EXCEPT !.peer = "eof"], "payload_unpack_error")
    ELSE IF type = 3
    THEN Returned([r EXCEPT !.peer = "eof"], "payload_eof_break")
    ELSE [r EXCEPT !.peer = "eof", !.lastEvent = "payload_eof_ignored"]

PayloadCut(s, type, how) ==
    /\ CanHandle(s)
    /\ sess' = StepOf(s, [PayloadCutHandler(sess[s], type, how)
                             EXCEPT !.lastType = -1, !.incRead = FALSE], 0)
    /\ UNCHANGED <<caller, registry, net, password, acceptor, backlog, frame, msgs>>

\* server.py:194-197: recv(1) raises a socket error (a reset connection
\* reports its error once); the handler says "continue"
RecvErrorHandler(r) == [r EXCEPT !.peer = "eof", !.lastEvent = "recv_error"]

LoopRecvError(s) ==
    /\ sess[s].pc = "MessageLoop"
    /\ sess[s].peer = "reset"
    /\ sess' = StepOf(s, [RecvErrorHandler(sess[s])
                             EXCEPT !.lastType = -1, !.incRead = FALSE], 0)
    /\ UNCHANGED <<caller, registry, net, password, acceptor, backlog, frame, msgs>>

\* server.py:203-205: recv(1) returns b"": close and leave the loop
RecvEofHandler(r) == Returned(SockClose(r), "recv_eof")

LoopRecvEof(s) ==
    /\ sess[s].pc = "MessageLoop"
    /\ sess[s].peer = "eof"
    /\ sess' = StepOf(s, [RecvEofHandler(sess[s])
                             EXCEPT !.lastType = -1, !.incRead = FALSE], 0)
    /\ UNCHANGED <<caller, registry, net, password, acceptor, backlog, frame, msgs>>

(***************************************************************************)
(* The environment: time, the image source, the client's end.              *)
(***************************************************************************)
\* a client that can still send a message
Awaited(s) == sess[s].pc = "MessageLoop" /\ sess[s].peer = "up" /\ msgs < MaxMsgs

Tick ==
    /\ \E s \in Sessions : Awaited(s)
    /\ sess' = [s \in Sessions |->
                   [sess[s] EXCEPT !.age = Older(@, 1), !.reqAge = Older(@, 1)]]
    /\ UNCHANGED <<caller, registry, net, password, acceptor, backlog, frame, msgs>>

FrameChange(f) ==
    /\ \E s \in Sessions : Awaited(s)
    /\ f # frame
    /\ frame' = f
    /\ UNCHANGED <<caller, registry, net, password, acceptor, backlog, msgs, sess>>

\* image_source() of vnc_server_thread returns self.vnc_image, one read of a
\* reference; the producer thread assigns a fresh copy to it, before the read
\* (late) or after it
image_source(before, after, late) == IF late THEN after ELSE before

\* a FramebufferUpdateRequest handled while the producer replaces the frame
UpdateWhileFrameReplaced(s, incremental, rect, f, late) ==
    /\ CanHandle(s)
    /\ f # frame
    /\ LET r == sess[s]
           scr == image_source(frame, f, late)
           sleeps == /\ ~Throttled(r.age)
                     /\ UpdateSleeps(r, scr, rect[1], rect[2], rect[3], rect[4],
                                     incremental)
       IN  sess' = StepOf(s,
                          Noted(r,
                                UpdateRequestHandler(r, scr, incremental, rect[1],
                                                     rect[2], rect[3], rect[4], TRUE),
                                3, <<incremental>> \o rect),
                          IF sleeps THEN SleepTicks ELSE 0)
    /\ frame' = f
    /\ msgs' = msgs + 1
    /\ UNCHANGED <<caller, registry, net, password, acceptor, backlog>>

\* the client closes its end, or the connection is reset
PeerGone(s, how) ==
    /\ Awaited(s)
    /\ sess' = [sess EXCEPT ![s] = [@ EXCEPT !.peer = how]]
    /\ UNCHANGED <<caller, registry, net, password, acceptor, backlog, frame, msgs>>

(***************************************************************************)
(* The reads of the message loop byte by byte (server.py:193-289).  The    *)
(* client's bytes arrive in segments of any size; a read blocks until the  *)
(* socket can answer it.                                                   *)
(***************************************************************************)
\* stream: bytes the client has still to send; sockbuf: bytes that arrived
\* and are not read yet; rd: the read the loop is blocked in; n: the count of
\* a SetEncodings; short: a read of fixed length came back with fewer bytes
\* while the connection was open; taken: bytes the handler of an unknown type
\* read after its recv(4096); starts: the offsets in the client's stream at
\* which its messages begin; known: all of them have a type the loop knows;
\* pos: bytes read so far; sync: every byte read as a message type so far was
\* the first byte of a message; hs: bytes of the client's messages that the
\* reads of the handshake returned
NoNet ==
    [stream |-> <<>>, sockbuf |-> <<>>, rd |-> "none", n |-> 0,
     short |-> FALSE, taken |-> 0,
     starts |-> {}, known |-> FALSE, pos |-> 0, sync |-> TRUE, hs |-> 0]

U16(v) == <<v \div 256, v % 256>>
I32(v) == <<0, 0, 0, v>>

\* what a client writes for each message (struct formats of server.py:221,
\* 251-253, 275, 279-285)
MsgSetPixelFormat(pf) ==
    <<0, 0, 0, 0, pf.bpp, pf.depth, pf.bigendian, pf.truecolor>>
    \o U16(pf.red_maximum) \o U16(pf.green_maximum) \o U16(pf.blue_maximum)
    \o <<pf.red_shift, pf.green_shift, pf.blue_shift, 0, 0, 0>>
MsgSetEncodings(ids) ==
    <<2, 0>> \o U16(Len(ids)) \o
    (IF Len(ids) = 1 THEN I32(ids[1]) ELSE I32(ids[1]) \o I32(ids[2]))
MsgUpdateRequest(incremental, x, y, w, h) ==
    <<3, incremental>> \o U16(x) \o U16(y) \o U16(w) \o U16(h)
MsgKeyEvent == <<4, 1, 0, 0>> \o I32(65)
MsgPointerEvent == <<5, 0>> \o U16(1) \o U16(0)
MsgCutHeader == <<6, 0, 0, 0, 0, 0>>
MsgUnknown == <<99, 1, 2>>
\* ClientCutText as a client writes it: type, 3 bytes of padding, the length
\* of the text in 4 bytes, the text
MsgCutText(text) == <<6, 0, 0, 0>> \o I32(Len(text)) \o text

\* what clients send: some messages one after the other
ClientScripts ==
    {<<MsgSetPixelFormat(DefaultFormat), MsgUpdateRequest(0, 0, 0, FrameW, FrameH)>>,
     <<MsgSetEncodings(<<5, 0>>), MsgPointerEvent>>,
     <<MsgUnknown, MsgKeyEvent, MsgCutHeader>>,
     <<MsgCutText(<<104, 105>>), MsgPointerEvent>>}

\* the bytes of the first k messages of a script
RECURSIVE Flat(_, _)
Flat(script, k) == IF k = 0 THEN <<>> ELSE Flat(script, k - 1) \o script[k]

\* the net of a connection whose client is about to send a script
NetOf(script) ==
    [NoNet EXCEPT !.stream = Flat(script, Len(script)),
                  !.rd = "type",
                  !.starts = {Len(Flat(script, k)) : k \in 0 .. Len(script)},
                  !.known = \A k \in DOMAIN script : script[k][1] \in {0, 2, 3, 4, 5, 6}]

\* byte streams of a client
ClientStreams == {Flat(script, Len(script)) : script \in ClientScripts}

\* struct.unpack("!xxxBBBBHHHBBBxxx", data2)
UnpackPixelFormat(d) ==
    [bpp |-> d[4], depth |-> d[5], bigendian |-> d[6], truecolor |-> d[7],
     red_maximum |-> d[8] * 256 + d[9], green_maximum |-> d[10] * 256 + d[11],
     blue_maximum |-> d[12] * 256 + d[13],
     red_shift |-> d[14], green_shift |-> d[15], blue_shift |-> d[16]]

\* struct.unpack("!%si" % nencodings, data2), for ids below 256
UnpackIds(d) == [j \in 1 .. (Len(d) \div 4) |-> d[4 * j]]

\* struct.unpack("!BHHHH", data2)
UnpackRequest(d) ==
    <<d[1], d[2] * 256 + d[3], d[4] * 256 + d[5], d[6] * 256 + d[7], d[8] * 256 + d[9]>>

\* the read that follows a message type (server.py:207-289)
ReadAfterType(b) ==
    IF b = 0 THEN "spf" ELSE IF b = 2 THEN "enc_hdr" ELSE IF b = 3 THEN "req"
    ELSE IF b = 4 THEN "key" ELSE IF b = 5 THEN "ptr" ELSE IF b = 6 THEN "cut"
    ELSE "drain"

\* the byte count each read asks for
ReadSize(rd, n) ==
    IF rd = "type" THEN 1 ELSE IF rd = "spf" THEN 19 ELSE IF rd = "enc_hdr" THEN 3
    ELSE IF rd = "enc_ids" THEN 4 * n ELSE IF rd = "req" THEN 9
    ELSE IF rd = "key" THEN 7 ELSE IF rd = "drain" THEN 4096 ELSE 5

\* the reads made with socket.MSG_WAITALL
WaitsAll(rd) == rd \in {"spf", "enc_ids", "req", "key", "ptr", "cut", "drain5"}

\* recv returns: with MSG_WAITALL when the count is there, without it when
\* anything is there, and in both cases when the peer has closed
CanRecv(s) ==
    \/ sess[s].peer = "eof"
    \/ IF WaitsAll(net.rd)
       THEN Len(net.sockbuf) >= ReadSize(net.rd, net.n)
       ELSE Len(net.sockbuf) >= 1

Received == SubSeq(net.sockbuf, 1, Min(ReadSize(net.rd, net.n), Len(net.sockbuf)))

Unread == SubSeq(net.sockbuf, Len(Received) + 1, Len(net.sockbuf))

\* a segment of k bytes arrives; the client writes its messages behind its
\* ClientInit, which it writes when it has the SecurityResult
Arrive(k) ==
    /\ k \in 1 .. Len(net.stream)
    /\ \E s \in Sessions : sess[s].pc \in {"ClientInit", "MessageLoop"}
    /\ net' = [net EXCEPT !.sockbuf = @ \o SubSeq(net.stream, 1, k),
                          !.stream = SubSeq(@, k + 1, Len(@))]
    /\ UNCHANGED <<caller, registry, password, acceptor, backlog, frame, msgs, sess>>

\* the client closes its end after its last byte
ClientClose(s) ==
    /\ sess[s].pc = "MessageLoop"
    /\ sess[s].peer = "up"
    /\ net.stream = <<>>
    /\ sess' = [sess EXCEPT ![s] = [@ EXCEPT !.peer = "eof"]]
    /\ UNCHANGED <<caller, registry, net, password, acceptor, backlog, frame, msgs>>

\* get_buffer's recv(1024): the byte count each read of the handshake asks for
GetBufferSize == 1024

\* what the ClientInit read returns behind the ClientInit byte: the bytes of
\* the client's messages that have arrived, up to the count asked for
GetBufferExtra == Min(Len(net.sockbuf), GetBufferSize - 1)

\* server.py:136-139 with the client's messages in the socket: ClientInit has
\* arrived, get_buffer(30) returns it with what lies behind it
ReadClientInit(s) ==
    /\ sess[s].pc = "ClientInit"
    /\ sess' = [sess EXCEPT ![s] = handle_client_start(server_init(@, frame))]
    /\ net' = [net EXCEPT !.sockbuf = SubSeq(@, GetBufferExtra + 1, Len(@)),
                          !.pos = @ + GetBufferExtra,
                          !.hs = GetBufferExtra]
    /\ UNCHANGED <<caller, registry, password, acceptor, backlog, frame, msgs>>

\* server.py:195-205: data = sock.recv(1)
ReadType(s) ==
    /\ sess[s].pc = "MessageLoop"
    /\ net.rd = "type"
    /\ CanRecv(s)
    /\ IF Received = <<>>
       THEN /\ sess' = StepOf(s, [RecvEofHandler(sess[s]) EXCEPT !.lastType = -1,
                                                                  !.incRead = FALSE], 0)
            /\ net' = net
       ELSE /\ sess' = sess
            /\ net' = [net EXCEPT !.sockbuf = Unread, !.rd = ReadAfterType(Received[1]),
                                  !.pos = @ + 1,
                                  !.sync = @ /\ net.pos \in net.starts]
    /\ UNCHANGED <<caller, registry, password, acceptor, backlog, frame, msgs>>

\* what the loop does with the payload it read, up to its next read
PayloadHandler(r, rd, d) ==
    LET size == ReadSize(rd, net.n)
    IN  IF rd = "spf"
        THEN IF Len(d) < size
             THEN Raised(r, "payload_unpack_error")
             ELSE Noted(r, SetPixelFormatHandler(r, frame, UnpackPixelFormat(d),
                                                 r.peer = "up"), 0, <<>>)
        ELSE IF rd = "enc_hdr"
        THEN IF Len(d) < size
             THEN Raised(r, "payload_unpack_error")
             ELSE [r EXCEPT !.lastEvent = "encodings_counted"]
        ELSE IF rd = "enc_ids"
        THEN IF Len(d) < size
             THEN Raised(r, "payload_unpack_error")
             ELSE Noted(r, SetEncodingsHandler(r, UnpackIds(d)), 2, UnpackIds(d))
        ELSE IF rd = "req"
        THEN IF d = <<>>
             THEN Returned(r, "payload_eof_break")
             ELSE IF Len(d) < size /\ ~Throttled(r.age)
             THEN Raised(r, "payload_unpack_error")
             ELSE LET q == IF Len(d) < size THEN <<0, 0, 0, 0, 0>> ELSE UnpackRequest(d)
                  IN  Noted(r, UpdateRequestHandler(r, frame, q[1], q[2], q[3], q[4],
                                                    q[5], r.peer = "up"), 3, q)
        ELSE IF rd \in {"key", "ptr", "cut"}
        THEN Noted(r, IgnoredEventHandler(r),
                   IF rd = "key" THEN 4 ELSE IF rd = "ptr" THEN 5 ELSE 6, <<>>)
        ELSE IF rd = "drain"
        THEN [r EXCEPT !.lastEvent = "unknown_drained"]
        ELSE [r EXCEPT !.lastEvent = "unknown_done"]

\* server.py:208, 249, 252, 264, 279, 282, 285, 287, 289: the reads of payloads
ReadPayload(s) ==
    /\ sess[s].pc = "MessageLoop"
    /\ net.rd \notin {"none", "type"}
    /\ CanRecv(s)
    /\ LET r == sess[s]
           d == Received
           r2 == PayloadHandler(r, net.rd, d)
           sleeps == /\ net.rd = "req" /\ Len(d) = 9 /\ ~Throttled(r.age)
                     /\ UpdateSleeps(r, frame, UnpackRequest(d)[2], UnpackRequest(d)[3],
                                     UnpackRequest(d)[4], UnpackRequest(d)[5],
                                     UnpackRequest(d)[1])
       IN  /\ sess' = StepOf(s, r2, IF sleeps THEN SleepTicks ELSE 0)
           /\ net' = [net EXCEPT
                 !.sockbuf = Unread,
                 !.rd = IF net.rd = "enc_hdr" THEN "enc_ids"
                        ELSE IF net.rd = "drain" THEN "drain5" ELSE "type",
                 !.n = IF net.rd = "enc_hdr" /\ Len(d) = 3 THEN d[2] * 256 + d[3] ELSE @,
                 !.short = @ \/ (/\ net.rd # "drain"
                                 /\ Len(d) < ReadSize(net.rd, net.n)
                                 /\ r.peer = "up"),
                 !.taken = IF net.rd = "drain5" THEN Len(d) ELSE @,
                 !.pos = @ + Len(d)]
    /\ UNCHANGED <<caller, registry, password, acceptor, backlog, frame, msgs>>

\* one connection, MaxMsgs client messages
Init ==
    /\ caller = "starting"
    /\ registry \in Registries
    /\ net = NoNet
    /\ password \in Passwords
    /\ acceptor = "not_started"
    /\ backlog = 1
    /\ frame \in Frames
    /\ msgs = 0
    /\ sess = [s \in Sessions |-> NewSession]

\* two connections at a time, one client message between them
InitMulti ==
    /\ caller = "starting"
    /\ registry \in Registries
    /\ net = NoNet
    /\ password \in Passwords
    /\ acceptor = "not_started"
    /\ backlog = 2
    /\ frame \in Frames
    /\ msgs = MaxMsgs - 1
    /\ sess = [s \in Sessions |-> NewSession]

Next ==
    \/ StartVnc
    \/ \E ok \in BOOLEAN : Bind(ok)
    \/ AcceptFails
    \/ \E s \in Sessions : Accept(s)
    \/ \E s \in Sessions : RunStart(s)
    \/ \E s \in Sessions, kind \in ReadKinds, data \in ClientVersions :
          RecvVersion(s, kind, data)
    \/ \E s \in Sessions, kind \in ReadKinds, t \in ClientSecTypes, ch \in Challenges :
          RecvSecType(s, kind, t, ch)
    \/ \E s \in Sessions, kind \in ReadKinds, resp \in Responses :
          RecvAuthResponse(s, kind, resp)
    \/ \E s \in Sessions, kind \in ReadKinds : RecvClientInit(s, kind)
    \/ \E s \in Sessions, pf \in ClientFormats, sendOk \in BOOLEAN :
          SetPixelFormat(s, pf, sendOk)
    \/ \E s \in Sessions, ids \in ClientEncodingLists : SetEncodings(s, ids)
    \/ \E s \in Sessions, inc \in {0, 1}, rect \in ClientRects, sendOk \in BOOLEAN :
          FramebufferUpdateRequest(s, inc, rect, sendOk)
    \/ \E s \in Sessions, type \in {4, 5, 6} : IgnoredEvent(s, type)
    \/ \E s \in Sessions, type \in {0, 2, 3, 4, 5, 6}, how \in {"eof", "reset"} :
          PayloadCut(s, type, how)
    \/ \E s \in Sessions : LoopRecvError(s)
    \/ \E s \in Sessions : LoopRecvEof(s)
    \/ \E s \in Sessions, how \in {"eof", "reset"} : PeerGone(s, how)
    \/ Tick
    \/ \E f \in Frames : FrameChange(f)

Spec == Init /\ [][Next]_vars

SpecMulti == InitMulti /\ [][Next]_vars

\* one connection without password, its messages as a stream of bytes
InitBytes ==
    /\ caller = "starting"
    /\ registry = <<ENCODINGS_raw>>
    /\ net \in {NetOf(script) : script \in ClientScripts}
    /\ password = PyNone
    /\ acceptor = "not_started"
    /\ backlog = 1
    /\ frame = Solid(FrameW, FrameH, Bg)
    /\ msgs = 0
    /\ sess = [s \in Sessions |-> NewSession]

NextBytes ==
    \/ StartVnc
    \/ \E ok \in BOOLEAN : Bind(ok)
    \/ \E s \in Sessions : Accept(s)
    \/ \E s \in Sessions : RunStart(s)
    \/ \E s \in Sessions : RecvVersion(s, "data", "RFB 003.008\n")
    \/ \E s \in Sessions : RecvSecType(s, "data", SECTYPE_none, "ch1")
    \/ \E s \in Sessions : ReadClientInit(s)
    \/ \E k \in 1 .. 30 : Arrive(k)
    \/ \E s \in Sessions : ClientClose(s)
    \/ \E s \in Sessions : ReadType(s)
    \/ \E s \in Sessions : ReadPayload(s)
    \/ Tick

SpecBytes == InitBytes /\ [][NextBytes]_vars

\* one connection without password; the client sets pixel formats while the
\* image source shows frames of one colour
InitFormats ==
    /\ caller = "starting"
    /\ registry = <<ENCODINGS_raw>>
    /\ net = NoNet
    /\ password = PyNone
    /\ acceptor = "not_started"
    /\ backlog = 1
    /\ frame \in SolidFrames
    /\ msgs = MaxMsgs - 2
    /\ sess = [s \in Sessions |-> NewSession]

NextFormats ==
    \/ StartVnc
    \/ \E ok \in BOOLEAN : Bind(ok)
    \/ \E s \in Sessions : Accept(s)
    \/ \E s \in Sessions : RunStart(s)
    \/ \E s \in Sessions : RecvVersion(s, "data", "RFB 003.008\n")
    \/ \E s \in Sessions : RecvSecType(s, "data", SECTYPE_none, "ch1")
    \/ \E s \in Sessions : RecvClientInit(s, "data")
    \/ \E s \in Sessions, pf \in ValidFormats : SetPixelFormat(s, pf, TRUE)
    \/ \E s \in Sessions, ids \in ClientEncodingLists : SetEncodings(s, ids)
    \/ \E s \in Sessions, inc \in {0, 1}, rect \in RequestRects :
          FramebufferUpdateRequest(s, inc, rect, TRUE)
    \/ \E s \in Sessions, type \in {4, 5, 6} : IgnoredEvent(s, type)
    \/ \E f \in SolidFrames : FrameChange(f)
    \/ \E s \in Sessions, inc \in {0, 1}, rect \in RequestRects,
          f \in SolidFrames, late \in BOOLEAN :
          UpdateWhileFrameReplaced(s, inc, rect, f, late)
    \/ Tick

SpecFormats == InitFormats /\ [][NextFormats]_vars

(***************************************************************************)
(* The properties.                                                         *)
(***************************************************************************)
ExpectedSecTypes == IF password \in {PyNone, ""} THEN <<1>> ELSE <<2>>

NeverServed(r) ==
    /\ "ServerInit" \notin r.sentKinds
    /\ "FramebufferUpdate" \notin r.sentKinds
    /\ r.encoders = 0            \* handle_client never started
    /\ r.pc # "MessageLoop"

\* C1: a session whose response to the challenge does not match is closed
\* and is never sent ServerInit or a FramebufferUpdate and never enters the
\* message loop; ServerInit is sent only after the security handshake
\* reported success.
C1_MismatchRejected ==
    \A s \in Sessions :
        /\ sess[s].authMismatch => sess[s].pc = "CLOSED" /\ NeverServed(sess[s])
        /\ "ServerInit" \in sess[s].sentKinds =>
              sess[s].secResult = "ok" /\ ~sess[s].authMismatch

C1_Witness ==
    \E s \in Sessions :
        /\ password = "secret"
        /\ sess[s].authMismatch
        /\ sess[s].lastEvent = "auth_failed"
        /\ sess[s].sockClosed

\* C2: the security types offered are exactly [1] without a password (None
\* or empty) and exactly [2] with one; a client that chooses another type
\* never reaches ServerInit or the message loop.
C2_OfferedTypes ==
    \A s \in Sessions :
        /\ "SecurityTypes" \in sess[s].sentKinds => sess[s].sectypes = ExpectedSecTypes
        /\ sess[s].lastSent.kind = "SecurityTypes" =>
              sess[s].lastSent.types = ExpectedSecTypes
        /\ sess[s].choseUnoffered => sess[s].pc = "CLOSED" /\ NeverServed(sess[s])

C2_Witness ==
    \E s \in Sessions :
        /\ sess[s].choseUnoffered
        /\ sess[s].lastEvent = "sectype_refused"
        /\ sess[s].sectypes = ExpectedSecTypes

SendFailures == {"send_failed", "throttle_send_failed"}

\* C3: a FramebufferUpdateRequest handled before any SetPixelFormat is
\* answered with a FramebufferUpdate in the default format of ServerInit
\* (32 bpp, shifts 16/8/0), and the session stays in the message loop.
C3_DefaultFormatServed ==
    \A s \in Sessions :
        (/\ sess[s].lastType = 3
         /\ ~sess[s].formatSeen
         /\ sess[s].lastEvent \notin SendFailures)
        => /\ sess[s].pc = "MessageLoop"
           /\ sess[s].lastSent.kind = "FramebufferUpdate"
           /\ sess[s].lastSent.nrects = 1 =>
                 /\ sess[s].lastSent.bpp = 32
                 /\ sess[s].lastSent.shifts = <<16, 8, 0>>

\* C4: when two consecutive incremental requests of a session, with no
\* other message in between, read the same frame from the image source, the
\* reply to the second has no rectangle, whatever the two rectangles are.
C4_SameFrameNoRectangle ==
    \A s \in Sessions : sess[s].repeated => sess[s].lastSent.nrects = 0

Replied(r) == r.lastEvent \in {"request_throttled", "update_sent", "update_empty"}

C6_FullUpdateAfterFormat ==
    \A s \in Sessions :
        sess[s].answered.on =>
            LET m == sess[s].lastSent
                f == sess[s].answered.fmt
            IN  /\ m.kind = "FramebufferUpdate"
                /\ m.nrects = 1
                /\ <<m.x, m.y, m.w, m.h>> = <<0, 0, sess[s].width, sess[s].height>>
                /\ m.bpp = f.bpp
                /\ m.shifts = <<f.red_shift, f.green_shift, f.blue_shift>>
                /\ m.src \in Frames

\* a SetPixelFormat handled while a snapshot of an earlier update was stored
C6_Witness ==
    \E s \in Sessions :
        /\ sess[s].answered.on
        /\ sess[s].lastType = 0
        /\ sess[s].updates >= 2
        /\ sess[s].lastSent.bpp = 8

\* C7: a request with incremental = 0 for (x, y, w, h) that is not
\* throttled, in a session whose bpp is 8, 16 or 32, is answered with one
\* rectangle, exactly (x, y, w, h), in the selected encoding.
C7_FullRequestOneRectangle ==
    \A s \in Sessions :
        (/\ sess[s].lastType = 3
         /\ sess[s].lastReq[1] = 0
         /\ sess[s].lastAge * TickMs >= ThrottleMs
         /\ sess[s].fmt.bpp \in {8, 16, 32}
         /\ sess[s].lastEvent \notin SendFailures)
        => /\ sess[s].lastSent.kind = "FramebufferUpdate"
           /\ sess[s].lastSent.nrects = 1
           /\ <<sess[s].lastSent.x, sess[s].lastSent.y,
                sess[s].lastSent.w, sess[s].lastSent.h>> = SubSeq(sess[s].lastReq, 2, 5)
           /\ sess[s].lastSent.enc = sess[s].encoding

\* the positions of the frame inside a rectangle
Region(rect) ==
    {p \in Pos(FrameW, FrameH) :
        /\ rect[1] <= p[1] /\ p[1] < rect[1] + rect[3]
        /\ rect[2] <= p[2] /\ p[2] < rect[2] + rect[4]}

\* C8, for a client that keeps requesting one rectangle: after every
\* FramebufferUpdate with a rectangle, the client's copy of the region it
\* requests equals the frame the server read for that update.
C8_ClientCopyCurrent ==
    \A s \in Sessions :
        (sess[s].lastEvent = "update_sent" /\ Cardinality(sess[s].rects) = 1)
        => \A rect \in sess[s].rects : \A p \in Region(rect) :
               sess[s].clientFb.px[p] = sess[s].frameRead.px[p]

\* C9: a fatal socket error on the read of the message type ends the loop:
\* the session is CLOSED and does not read again.
C9_ReadErrorCloses ==
    \A s \in Sessions : sess[s].lastEvent = "recv_error" => sess[s].pc = "CLOSED"

\* what a session owns, the passing of time left aside
Core(r) == [r EXCEPT !.age = 0, !.reqAge = 0]

\* C10: a step changes the state of one session at most, the throttle
\* timestamp of a session is moved by its own steps only, and a session that
\* ends leaves the acceptor as it is.
C10_SessionsIsolated ==
    [][/\ \A s, t \in Sessions :
              s # t => Core(sess'[s]) = Core(sess[s]) \/ Core(sess'[t]) = Core(sess[t])
       /\ \A t \in Sessions :
              sess'[t].age < sess[t].age => Core(sess'[t]) # Core(sess[t])
       /\ (\E s \in Sessions : sess'[s].pc = "CLOSED" /\ sess[s].pc # "CLOSED")
              => acceptor' = acceptor /\ backlog' = backlog]_vars

\* one session has crashed on its message while the other is in its loop
C10_Witness ==
    \E s, t \in Sessions :
        /\ s # t
        /\ sess[s].lastEvent = "update_raised"
        /\ sess[t].pc = "MessageLoop"

\* C11: the acceptor waits for no session: whatever the sessions are doing,
\* a connection that arrives at the listening acceptor can be accepted at
\* once, and every connection accepted has a session thread of its own.
C11_AcceptorNeverWaits ==
    /\ (/\ acceptor = "listening"
        /\ backlog > 0
        /\ \E s \in Sessions : sess[s].pc = "NotAccepted")
       => ENABLED (\E s \in Sessions : Accept(s))
    /\ Cardinality({s \in Sessions : sess[s].thread # "none"}) + backlog
          = Cardinality(Sessions)

\* a connection was accepted while the thread of another session was running
C11_Witness ==
    \E s, t \in Sessions :
        /\ s # t
        /\ sess[t].lastEvent = "accepted_beside"
        /\ sess[s].thread = "running"
        /\ sess[s].pc \in {"VersionExchange", "SecurityNegotiation", "MessageLoop"}

\* C12: after a failure of accept the acceptor goes on listening.
C12_AcceptFailureSurvived == acceptor # "accept_raised"

\* C13: a failed bind ends the acceptor before any accept, and the caller
\* that started the server is told of it.
C13_BindFailureReported ==
    acceptor = "bind_raised" =>
        /\ \A s \in Sessions : sess[s].pc = "NotAccepted"
        /\ caller = "bind_failed"

\* the ids of a list
IdsOf(ids) == {ids[j] : j \in DOMAIN ids}

\* C14: after a SetEncodings whose list shares an id with the priority list,
\* the selected encoding is the first id of the priority list that the
\* client's list holds, whatever the order of the client's list.
C14_PriorityOrderSelects ==
    \A s \in Sessions :
        (sess[s].lastType = 2 /\ sess[s].pc = "MessageLoop") =>
            LET hits == {i \in DOMAIN registry : registry[i] \in IdsOf(sess[s].lastReq)}
            IN  hits # {} =>
                  /\ sess[s].encoding \in IdsOf(sess[s].lastReq)
                  /\ \A i \in hits :
                        \E k \in hits : k <= i /\ registry[k] = sess[s].encoding

\* the client lists raw first, the server prefers the other encoding
C14_Witness ==
    \E s \in Sessions :
        /\ sess[s].lastType = 2
        /\ sess[s].lastReq = <<0, 6>>
        /\ registry = <<ENCODINGS_zlib, ENCODINGS_raw>>
        /\ sess[s].encoding = ENCODINGS_zlib

\* C15: the selected encoding is raw before any SetEncodings, and after every
\* SetEncodings whose list shares no id with the priority list.
C15_RawWithoutOverlap ==
    \A s \in Sessions :
        sess[s].pc = "MessageLoop" =>
            /\ ~sess[s].encSeen => sess[s].encoding = ENCODINGS_raw
            /\ (/\ sess[s].lastType = 2
                /\ IdsOf(sess[s].lastReq) \cap IdsOf(registry) = {})
               => sess[s].encoding = ENCODINGS_raw

\* C16: a SetPixelFormat with a bpp other than 8, 16 or 32 sends no update
\* and leaves the session in the message loop.
C16_UnsupportedBppSkipped ==
    \A s \in Sessions :
        (sess[s].lastType = 0 /\ sess[s].fmt.bpp \notin {8, 16, 32})
        => /\ sess[s].pc = "MessageLoop"
           /\ sess[s].lastSent.kind # "FramebufferUpdate"

\* C17: the refusal of a security type that was not offered is a status of
\* four bytes, value 1, then the reason with its length; it is the last
\* message sent, and the socket is closed.
C17_UnofferedTypeRefusal ==
    \A s \in Sessions :
        sess[s].lastEvent = "sectype_refused" =>
            /\ sess[s].lastSent.kind = "SecurityResult"
            /\ SubSeq(sess[s].lastSent.wire, 1, 4) = <<0, 0, 0, 1>>
            /\ sess[s].sockClosed
            /\ sess[s].pc = "CLOSED"

\* C18: a version reply that is empty, late or not a number ends the session
\* with the socket closed, nothing but the server's version having been sent.
C18_BadVersionAborts ==
    \A s \in Sessions :
        sess[s].lastEvent = "version_rejected" =>
            /\ sess[s].pc = "CLOSED"
            /\ sess[s].sentKinds = {"ProtocolVersion"}
            /\ sess[s].sockClosed

\* C19: the handler of an unknown message type reads nothing after the
\* bytes its recv(4096) drained, and the session stays in the message loop.
C19_UnknownTypeDrained ==
    \A s \in Sessions :
        sess[s].lastEvent = "unknown_done" =>
            /\ sess[s].pc = "MessageLoop"
            /\ net.taken = 0

\* C20: every read of a fixed length returns exactly its byte count, or the
\* connection has been closed.
C20_ReadsExact == ~net.short

(***************************************************************************)
(* A client that decodes what it is sent (RFB, pixel format): a pixel is   *)
(* bpp / 8 bytes in the byte order of the format, a channel is its maximum *)
(* wide at its shift.                                                      *)
(***************************************************************************)
\* the pixel bytes of a rectangle as the raw encoder puts them on the wire:
\* the bitmap row by row
RawBytes(image) ==
    LET k == Len(image.px[<<0, 0>>])
    IN  [j \in 1 .. (image.w * image.h * k) |->
            image.px[<<((j - 1) \div k) % image.w, ((j - 1) \div k) \div image.w>>]
                    [((j - 1) % k) + 1]]

\* the bytes the client takes for its pixel number i (from 0)
ClientPixel(m, i) ==
    LET n == m.bpp \div 8
        b == RawBytes(m.image)
    IN  IF (i + 1) * n <= Len(b) THEN SubSeq(b, i * n + 1, (i + 1) * n) ELSE <<>>

Reverse(q) == [j \in 1 .. Len(q) |-> q[Len(q) + 1 - j]]

\* (pixel >> shift) & max, on the bytes of the pixel, least significant first
Channel(le, shift, max) ==
    LET i == shift \div 8
        lo == IF i + 1 <= Len(le) THEN le[i + 1] ELSE 0
        hi == IF i + 2 <= Len(le) THEN le[i + 2] ELSE 0
    IN  ((lo + 256 * hi) \div (2 ^ (shift % 8))) % (max + 1)

\* the colour a client shows for the bytes of one pixel, channels scaled to 255
Decode(pf, bytes) ==
    LET le == IF pf.bigendian = 0 THEN bytes ELSE Reverse(bytes)
    IN  <<(Channel(le, pf.red_shift, pf.red_maximum) * 255) \div pf.red_maximum,
          (Channel(le, pf.green_shift, pf.green_maximum) * 255) \div pf.green_maximum,
          (Channel(le, pf.blue_shift, pf.blue_maximum) * 255) \div pf.blue_maximum>>

\* two channel values differ by no more than one step of a channel max wide
Near(a, b, max) == a - b <= 256 \div (max + 1) /\ b - a <= 256 \div (max + 1)

IsSolid(img) == \A p \in Pos(img.w, img.h) : img.px[p] = img.px[<<0, 0>>]

\* C21: for every valid pixel format of 32, 16 or 8 bpp, the update that
\* answers the SetPixelFormat, sent from a frame of one colour, decodes under
\* that format to that colour, within one quantization step of each channel.
C21_RoundTrip ==
    \A s \in Sessions :
        LET m == sess[s].lastSent
            pf == sess[s].fmt
        IN  (/\ sess[s].lastType = 0
             /\ sess[s].lastEvent = "update_sent"
             /\ pf \in ValidFormats
             /\ IsSolid(m.src))
            => \A i \in 0 .. (m.w * m.h - 1) :
                   LET bytes == ClientPixel(m, i)
                       c == m.src.px[<<0, 0>>]
                   IN  /\ bytes # <<>>
                       /\ Near(Decode(pf, bytes)[1], c[1], pf.red_maximum)
                       /\ Near(Decode(pf, bytes)[2], c[2], pf.green_maximum)
                       /\ Near(Decode(pf, bytes)[3], c[3], pf.blue_maximum)

\* C22: after every update that sends a rectangle, the stored snapshot is
\* the whole frame the update read, width x height, whatever rectangle was
\* requested or sent.
C22_SnapshotWholeFrame ==
    \A s \in Sessions :
        sess[s].lastEvent = "update_sent" =>
            sess[s].framebuffer =
                Crop(sess[s].frameRead, 0, 0, sess[s].width, sess[s].height)

\* C23: the rectangle sent in reply to an incremental request lies inside
\* the requested rectangle, and its pixels are those the current frame has at
\* the rectangle's own coordinates in the framebuffer.
C23_BBoxInFrameCoordinates ==
    \A s \in Sessions :
        LET m == sess[s].lastSent
            q == sess[s].lastReq
        IN  (/\ sess[s].lastType = 3
             /\ sess[s].lastEvent = "update_sent"
             /\ q[1] = 1)
            => /\ q[2] <= m.x /\ m.x + m.w <= q[2] + q[4]
               /\ q[3] <= m.y /\ m.y + m.h <= q[3] + q[5]
               /\ m.src = Crop(sess[s].frameRead, m.x, m.y, m.w, m.h)

\* C24: the width and height of a session are those of the frame the image
\* source returned at ServerInit, and no step after that changes them:
\* no client message, and no frame of another size.
C24_SizeFixed ==
    [][\A s \in Sessions :
          /\ (sess[s].pc = "ClientInit" /\ sess'[s].pc = "MessageLoop")
                => sess'[s].width = frame.w /\ sess'[s].height = frame.h
          /\ sess[s].pc = "MessageLoop"
                => sess'[s].width = sess[s].width /\ sess'[s].height = sess[s].height]_vars

\* an update was sent from a frame of another size than the session's
C24_Witness ==
    \E s \in Sessions :
        /\ sess[s].pc = "MessageLoop"
        /\ sess[s].lastEvent = "update_sent"
        /\ sess[s].frameRead.w # sess[s].width
        /\ sess[s].lastSent.w = sess[s].width

\* C25: the step that handles a KeyEvent, PointerEvent or ClientCutText sends
\* nothing and leaves the pixel format, the selected encoding and its encoder,
\* the snapshot and the throttle timestamp as they were.
C25_InputEventsInert ==
    [][\A s \in Sessions :
          (sess'[s].handled = sess[s].handled + 1 /\ sess'[s].lastType \in {4, 5, 6})
          => /\ sess'[s].updates = sess[s].updates
             /\ sess'[s].sentKinds = sess[s].sentKinds
             /\ sess'[s].lastSent = sess[s].lastSent
             /\ sess'[s].fmt = sess[s].fmt
             /\ sess'[s].shiftsSet = sess[s].shiftsSet
             /\ sess'[s].primaryOrder = sess[s].primaryOrder
             /\ sess'[s].encoding = sess[s].encoding
             /\ sess'[s].encoding_object = sess[s].encoding_object
             /\ sess'[s].framebuffer = sess[s].framebuffer
             /\ sess'[s].age = sess[s].age
             /\ sess'[s].pc = "MessageLoop"]_vars

\* an input event handled after an update, some time after last_rfbu
C25_Witness ==
    \E s \in Sessions :
        /\ sess[s].lastType \in {4, 5, 6}
        /\ sess[s].lastEvent = "ignored"
        /\ sess[s].framebuffer # NoImage
        /\ sess[s].updates >= 1
        /\ sess[s].age > 0

\* C26: in a session whose client sends well-formed messages of the types
\* 0, 2, 3, 4, 5 and 6 only, every byte the loop reads as a message type is
\* the first byte of a message of the client.
C26_StaysInStep == net.known => net.sync

\* C27: in the message loop the encoder instance is replaced only by a
\* SetEncodings that selects another id, a SetEncodings that selects the
\* current id leaves the instance and its state as they are, and an instance
\* that has sent an update finds that state at its next update: the rectangle
\* is not a first one for it.
C27_EncoderStateKept ==
    [][\A s \in Sessions :
          (sess[s].pc = "MessageLoop" /\ sess'[s].pc = "MessageLoop")
          => /\ sess'[s].encoding_object.id # sess[s].encoding_object.id
                   => /\ sess'[s].lastType = 2
                      /\ sess'[s].encoding # sess[s].encoding
             /\ (/\ sess'[s].handled = sess[s].handled + 1
                 /\ sess'[s].lastType = 2
                 /\ sess'[s].encoding = sess[s].encoding)
                   => sess'[s].encoding_object = sess[s].encoding_object
             /\ (/\ sess'[s].updates = sess[s].updates + 1
                 /\ sess'[s].lastSent.nrects = 1
                 /\ sess[s].encoding_object.firstUpdateSent)
                   => ~sess'[s].lastSent.first]_vars

\* C28: every rectangle converted while the bpp of the session is 8 was
\* converted with primaryOrder "bgr", whatever the shifts of the format.
C28_EightBppIsBgr ==
    \A s \in Sessions :
        LET m == sess[s].lastSent
        IN  (m.kind = "FramebufferUpdate" /\ m.nrects = 1 /\ m.bpp = 8)
            => m.order = "bgr" /\ sess[s].primaryOrder = "bgr"

\* a format of 8 bpp whose red shift is above its blue shift
C28_Witness ==
    \E s \in Sessions :
        /\ sess[s].lastSent.kind = "FramebufferUpdate"
        /\ sess[s].lastSent.nrects = 1
        /\ sess[s].lastSent.bpp = 8
        /\ sess[s].lastSent.shifts[1] > sess[s].lastSent.shifts[3]
        /\ sess[s].lastSent.order = "bgr"

\* C29: in the message loop with a bpp other than 8, primaryOrder is "rgb"
\* exactly when the red shift in force is above the blue shift in force; the
\* shifts in force before a SetPixelFormat are those of ServerInit.
C29_OrderFollowsShifts ==
    \A s \in Sessions :
        (sess[s].pc = "MessageLoop" /\ sess[s].fmt.bpp # 8)
        => LET f == IF sess[s].shiftsSet THEN sess[s].fmt ELSE DefaultFormat
           IN  sess[s].primaryOrder = "rgb" <=> f.red_shift > f.blue_shift

\* R to 5 bits, G to 6 bits, B to 5 bits, packed in 16 bits
Ideal565(c) == (c[1] \div 8) * 2048 + (c[2] \div 4) * 32 + (c[3] \div 8)

\* C30: at 16 bpp every pixel (R, G, B) of a rectangle sent becomes the word
\* ((R >> 3) << 11) | ((G >> 2) << 5) | (B >> 3), and its two bytes are in
\* little-endian order unless the client set the big-endian flag.
C30_Bgr565Exact ==
    \A s \in Sessions :
        LET m == sess[s].lastSent
        IN  (m.kind = "FramebufferUpdate" /\ m.nrects = 1 /\ m.bpp = 16)
            => \A p \in Pos(m.w, m.h) :
                   LET c == m.src.px[p]
                       word == Word16(c)
                   IN  /\ word = Ideal565(c)
                       /\ Bytes16(word, sess[s].fmt.bigendian) =
                              IF sess[s].fmt.bigendian = 0
                              THEN <<word % 256, word \div 256>>
                              ELSE <<word \div 256, word % 256>>

\* C31: at 32 bpp every pixel sent holds R, G and B at the red, green and blue
\* shift of the client's format, read in the byte order of the format.
C31_ChannelsAtShifts ==
    \A s \in Sessions :
        LET m == sess[s].lastSent
            pf == sess[s].fmt
        IN  (m.kind = "FramebufferUpdate" /\ m.nrects = 1 /\ m.bpp = 32)
            => \A p \in Pos(m.w, m.h) :
                   LET bytes == m.image.px[p]
                       le == IF pf.bigendian = 0 THEN bytes ELSE Reverse(bytes)
                   IN  /\ Len(bytes) = 4
                       /\ Channel(le, pf.red_shift, 255) = m.src.px[p][1]
                       /\ Channel(le, pf.green_shift, 255) = m.src.px[p][2]
                       /\ Channel(le, pf.blue_shift, 255) = m.src.px[p][3]

\* C32: the step that handles a FramebufferUpdateRequest on an open
\* connection sends exactly one FramebufferUpdate, of no or one rectangle;
\* a FramebufferUpdate is sent only by the step that handles a
\* FramebufferUpdateRequest or a SetPixelFormat, one at most.
C32_OneUpdatePerRequest ==
    [][\A s \in Sessions :
          /\ (/\ sess'[s].handled = sess[s].handled + 1
              /\ sess'[s].lastType = 3
              /\ sess'[s].lastEvent \notin SendFailures)
                => /\ sess'[s].updates = sess[s].updates + 1
                   /\ sess'[s].lastSent.kind = "FramebufferUpdate"
                   /\ sess'[s].lastSent.nrects \in {0, 1}
          /\ sess'[s].updates # sess[s].updates
                => /\ sess'[s].updates = sess[s].updates + 1
                   /\ sess'[s].handled = sess[s].handled + 1
                   /\ sess'[s].lastType \in {0, 3}]_vars

\* C33: the step that throttles a request leaves the snapshot, the pixel
\* format, the encoding with its encoder and the throttle timestamp as they
\* were; and when the next message is an incremental request that is not
\* throttled, the client's copy of the requested region is, after the reply,
\* what the frame holds there.
C33_ThrottleLosesNothing ==
    [][\A s \in Sessions :
          /\ (/\ sess'[s].handled = sess[s].handled + 1
              /\ sess'[s].lastEvent = "request_throttled")
                => /\ sess'[s].framebuffer = sess[s].framebuffer
                   /\ sess'[s].fmt = sess[s].fmt
                   /\ sess'[s].primaryOrder = sess[s].primaryOrder
                   /\ sess'[s].encoding = sess[s].encoding
                   /\ sess'[s].encoding_object = sess[s].encoding_object
                   /\ sess'[s].age = sess[s].age
          /\ (/\ sess[s].lastEvent = "request_throttled"
              /\ sess'[s].handled = sess[s].handled + 1
              /\ sess'[s].lastType = 3
              /\ sess'[s].lastReq[1] = 1
              /\ sess'[s].lastEvent \in {"update_sent", "update_empty"})
                => \A p \in Region(SubSeq(sess'[s].lastReq, 2, 5)) :
                       sess'[s].clientFb.px[p] = frame.px[p]]_vars

\* C34: every rectangle sent in a FramebufferUpdate lies inside the
\* framebuffer announced in ServerInit, whatever rectangle was requested.
C34_RectangleInsideFramebuffer ==
    \A s \in Sessions :
        LET m == sess[s].lastSent
        IN  (m.kind = "FramebufferUpdate" /\ m.nrects = 1)
            => /\ 0 <= m.x /\ 0 <= m.y
               /\ m.x + m.w <= sess[s].width
               /\ m.y + m.h <= sess[s].height

\* C35: an update takes everything from one frame, also when the producer
\* replaces the frame during the update: the pixels compared with the
\* snapshot, the pixels sent and the snapshot stored are crops of one frame,
\* the one before or the one after the replacement.
C35_OneFramePerUpdate ==
    [][\A s \in Sessions :
          (/\ sess'[s].handled = sess[s].handled + 1
           /\ sess'[s].lastType \in {0, 3}
           /\ sess'[s].lastEvent \in {"update_sent", "update_empty"})
          => \E g \in {frame, frame'} :
                LET req == sess'[s].lastReq
                    whole == sess'[s].lastType = 0
                    x == IF whole THEN 0 ELSE req[2]
                    y == IF whole THEN 0 ELSE req[3]
                    w == IF whole THEN sess[s].width ELSE req[4]
                    h == IF whole THEN sess[s].height ELSE req[5]
                    before == IF whole THEN NoImage ELSE sess[s].framebuffer
                    diffing == before # NoImage /\ (whole \/ req[1] = 1)
                    crop == Crop(g, x, y, w, h)
                    bbox == DiffBBox(crop, before)
                IN  IF sess'[s].lastEvent = "update_empty"
                    THEN /\ diffing /\ bbox = <<>>
                         /\ sess'[s].framebuffer = sess[s].framebuffer
                    ELSE /\ diffing => bbox # <<>>
                         /\ sess'[s].lastSent.src =
                               (IF diffing THEN CropBox(crop, bbox) ELSE crop)
                         /\ sess'[s].framebuffer = crop]_vars

\* an update has sent and stored a frame that the producer has replaced since
C35_Witness ==
    \E s \in Sessions :
        /\ sess[s].lastType = 3
        /\ sess[s].lastEvent = "update_sent"
        /\ sess[s].updates >= 2
        /\ sess[s].frameRead # frame
        /\ sess[s].framebuffer =
              Crop(sess[s].frameRead, sess[s].lastReq[2], sess[s].lastReq[3],
                   sess[s].lastReq[4], sess[s].lastReq[5])

\* C36: a handshake read that times out or returns end-of-file (version,
\* security type or ClientInit) leaves the session CLOSED with no ServerInit
\* sent; so a session is in MessageLoop only after it has received ClientInit.
C36_HandshakeReadFailureCloses ==
    \A s \in Sessions :
        sess[s].lastEvent \in {"version_rejected", "sectype_unpack_error",
                               "clientinit_timeout", "clientinit_eof"}
        => /\ sess[s].pc = "CLOSED"
           /\ "ServerInit" \notin sess[s].sentKinds

\* C37: the reads of the handshake return no byte of the client's messages,
\* so when the loop has read all a client sent behind its ClientInit, messages
\* of known types only, it has handled every one of them.
C37_HandshakeReadsItsFieldOnly ==
    /\ net.hs = 0
    /\ \A s \in Sessions :
          (/\ sess[s].pc = "MessageLoop"
           /\ net.known
           /\ net.stream = <<>> /\ net.sockbuf = <<>> /\ net.rd = "type")
          => sess[s].handled = Cardinality(net.starts) - 1

\* C38: the step that handles a SetEncodings sends nothing and leaves the pixel
\* format and the snapshot as they were; the step that handles a
\* SetPixelFormat, when the session goes on, leaves the encoding id and the
\* encoder instance as they were.
C38_FormatAndEncodingApart ==
    [][\A s \in Sessions :
          /\ (sess'[s].handled = sess[s].handled + 1 /\ sess'[s].lastType = 2)
                => /\ sess'[s].updates = sess[s].updates
                   /\ sess'[s].sentKinds = sess[s].sentKinds
                   /\ sess'[s].lastSent = sess[s].lastSent
                   /\ sess'[s].fmt = sess[s].fmt
                   /\ sess'[s].primaryOrder = sess[s].primaryOrder
                   /\ sess'[s].framebuffer = sess[s].framebuffer
          /\ (/\ sess'[s].handled = sess[s].handled + 1
              /\ sess'[s].lastType = 0
              /\ sess'[s].pc = "MessageLoop")
                => /\ sess'[s].encoding = sess[s].encoding
                   /\ sess'[s].encoding_object.id = sess[s].encoding_object.id]_vars

\* a SetPixelFormat has been handled after a SetEncodings switched the encoder
C38_Witness ==
    \E s \in Sessions :
        /\ sess[s].pc = "MessageLoop"
        /\ sess[s].lastType = 0
        /\ sess[s].lastEvent = "update_sent"
        /\ sess[s].encSeen
        /\ sess[s].encoding = ENCODINGS_zlib
        /\ sess[s].encoding_object.id = 2

\* C39: a session in MessageLoop sends nothing in a step in which it handles
\* no message, and a step in which it handles one suspends nowhere: no time
\* passes inside it, so the time since the last update is 0 after a request
\* that was not throttled and what it was after any other message.
C39_SuspendsOnTypeReadOnly ==
    [][\A s \in Sessions :
          /\ (/\ sess[s].pc = "MessageLoop" /\ sess'[s].pc = "MessageLoop"
              /\ sess'[s].handled = sess[s].handled)
                => /\ sess'[s].updates = sess[s].updates
                   /\ sess'[s].sentKinds = sess[s].sentKinds
                   /\ sess'[s].lastSent = sess[s].lastSent
          /\ (/\ sess'[s].pc = "MessageLoop" /\ sess'[s].peer = "up"
              /\ sess'[s].handled = sess[s].handled + 1)
                => sess'[s].age =
                      (IF /\ sess'[s].lastType = 3
                          /\ sess'[s].lastEvent # "request_throttled"
                       THEN 0 ELSE sess[s].age)]_vars

====
